---- MODULE Spec2Model ----
(***************************************************************************)
(* State-machine model of the Alloy VS Code extension (src/extension.ts):  *)
(* the activation sequence, the registered commands, the code-lens / link  *)
(* middleware with its per-document cache, the notification handlers of    *)
(* the language client, the webview panel and the visualizer processes.    *)
(***************************************************************************)
EXTENDS Integers, Sequences, FiniteSets, TLC

(***************************************************************************)
(* Bounds of the model.                                                    *)
(***************************************************************************)
MaxLenses == 2
MaxPending == 2
MaxPanels == 2
MaxOpenModel == 2
MaxPickers == 1
MaxConnections == 2
RandBits == 17

(***************************************************************************)
(* Documents of the host editor.  A document has a URI, an "untitled" flag *)
(* and a language identifier; NoEditor stands for activeTextEditor being   *)
(* undefined.                                                              *)
(***************************************************************************)
Docs == {"a.als", "b.md", "c.txt", "Untitled-1"}
NoEditor == "<no editor>"
Editors == Docs \cup {NoEditor}

isUntitled(d) == d = "Untitled-1"

languageId(d) ==
  CASE d = "a.als" -> "alloy"
    [] d = "b.md" -> "markdown"
    [] d = "c.txt" -> "plaintext"
    [] OTHER -> "alloy"

UriScheme(d) == IF isUntitled(d) THEN "untitled" ELSE "file"

\* document.uri.toString()
UriToString(d) ==
  CASE d = "a.als" -> "file:///a.als"
    [] d = "b.md" -> "file:///b.md"
    [] d = "c.txt" -> "file:///c.txt"
    [] OTHER -> "untitled:Untitled-1"

fileName(d) ==
  CASE d = "a.als" -> "/a.als"
    [] d = "b.md" -> "/b.md"
    [] d = "c.txt" -> "/c.txt"
    [] OTHER -> "Untitled-1"

\* A JavaScript value that is not a string (an argument left out).
Undefined == "<undefined>"
IsString(v) == v # Undefined

isAlloyLangId(id) == id = "alloy" \/ id = "markdown"

\* The guard without its test of isUntitled.
EditorIsAlloyLanguage(e) == e # NoEditor /\ isAlloyLangId(languageId(e))

\* The guard shared by execute-all, open-editor and list-commands:
\* editor && !editor.document.isUntitled && isAlloyLangId(languageId)
EditorIsAlloyFile(e) ==
  /\ e # NoEditor
  /\ ~isUntitled(e)
  /\ isAlloyLangId(languageId(e))

\* clientOptions.documentSelector: the documents the middleware is called for.
documentSelector == {d \in Docs : UriScheme(d) = "file" /\ languageId(d) \in {"alloy", "markdown"}}

(***************************************************************************)
(* Positions, ranges and code lenses.                                      *)
(***************************************************************************)
Positions == {<<0, 0>>, <<0, 1>>, <<1, 0>>, <<1, 1>>}

PosLE(p, q) == p[1] < q[1] \/ (p[1] = q[1] /\ p[2] <= q[2])

\* vscode.Range.contains(position): start <= position <= end.
RangeContains(r, p) == PosLE(r.start, p) /\ PosLE(p, r.end)

Ranges == {[start |-> <<0, 0>>, end |-> <<0, 1>>], [start |-> <<0, 1>>, end |-> <<1, 0>>]}

\* lens.command is optional: present = FALSE stands for an absent command.
NoCommand == [present |-> FALSE, command |-> "", arguments |-> <<>>]
Cmd(id, args) == [present |-> TRUE, command |-> id, arguments |-> args]

\* The command identifier the worker puts on its lenses.
ServerCommand == "ExecuteAlloyCommand"

\* The index the worker gives the command at range r.
IndexOf(r) == r.start[1] + r.start[2]

\* The lenses the worker may return for document d: without a command, with
\* a command on d itself, or with a command on another document.
LensPool(d) ==
  {[range |-> r, command |-> NoCommand] : r \in {rr \in Ranges : rr.start = <<0, 0>>}}
  \cup {[range |-> r,
         command |-> Cmd(ServerCommand, <<UriToString(d), IndexOf(r), r.start[1], r.start[2]>>)] :
        r \in Ranges}
  \cup {[range |-> r,
         command |-> Cmd(ServerCommand, <<UriToString("c.txt"), IndexOf(r), r.start[1], r.start[2]>>)] :
        r \in {rr \in Ranges : rr.start = <<0, 1>>}}

SeqsUpTo(S, n) == UNION {[1..k -> S] : k \in 0..n}

\* A provider result: null/undefined or a list of lenses.
NullList == [kind |-> "null", lenses |-> <<>>]
List(ls) == [kind |-> "list", lenses |-> ls]
Absent == [kind |-> "absent", lenses |-> <<>>]

LensResults(d) == {NullList} \cup {List(ls) : ls \in SeqsUpTo(LensPool(d), MaxLenses)}

\* The results used where several requests are in flight at once.
ShortLensResults(d) == {NullList, List(<<>>)} \cup {List(<<l>>) : l \in LensPool(d)}

Modes == {"codelens", "link", ""}

\* The documents the host asks code lenses and links for.
LensDocs == {"a.als"}


\* lens.command.command = 'alloy.executeCommand' for every lens with a command.
RewriteLens(l) ==
  IF l.command.present
    THEN [l EXCEPT !.command.command = "alloy.executeCommand"]
    ELSE l

\* The callback handed to actOnProvideResult: what the cache receives for res.
RewriteResult(res) ==
  IF res.kind = "list"
    THEN List([i \in 1..Len(res.lenses) |-> RewriteLens(res.lenses[i])])
    ELSE res

(***************************************************************************)
(* State.                                                                  *)
(***************************************************************************)
VARIABLES
  pc,                  \* position of activate(): "start", "awaitListen", "awaitReady", "ready", "failed"
  random,              \* what Math.random() returns at line 130, as a multiple of 2^-RandBits
  port,                \* the port chosen at line 130 (0 before it is chosen)
  listener,            \* the TCP listener: "binding", "listening" or "failed"
  accepted,            \* number of inbound connections the listener has accepted
  transport,           \* the connection whose stream the client reads and writes (0: none yet)
  client,              \* the module's client: "undefined" or "started"
  handlers,            \* TRUE once the onReady continuation registered the handlers
  lsProc,              \* the worker process: "undefined" or "spawned"
  commands,            \* the middleware's Map: document -> Absent, NullList or a list
  pending,             \* unresolved code-lens futures, in the order they were issued
  issued,              \* per document, what next() gave the last request issued (history)
  latestInstanceLink,  \* NoLink (null) or a link
  webViewPanel,        \* _webViewPanel: 0 (null) or a panel
  panelsCreated,       \* number of panels created so far
  livePanels,          \* the panels the host has not disposed
  visiblePanels,       \* the live panels that are visible
  pickers,             \* the open quick picks, each the list of its items
  opens,               \* one record per alloy/OpenModel notification handled
  vizLog,              \* the pkill and visualizer spawns, in order
  lastOp               \* the last handler run: its inputs and what it did

bridgeVars == <<random, port, listener, accepted, transport>>
activationVars == <<pc, client, handlers, lsProc, bridgeVars>>
lensVars == <<commands, pending, issued>>
panelVars == <<webViewPanel, panelsCreated, livePanels, visiblePanels>>
vizVars == <<opens, vizLog>>
vars == <<pc, random, port, listener, accepted, transport, client, handlers, lsProc,
          commands, pending, issued, latestInstanceLink,
          webViewPanel, panelsCreated, livePanels, visiblePanels, pickers, opens,
          vizLog, lastOp>>

NoLink == "<null>"
Links == {"instance1.xml", "instance2.xml"}

\* A test that takes every reference, null included, as recorded.
AlwaysTruthy(s) == TRUE

\* if(latestInstanceLink): null and the empty string are falsy.
Truthy(s) == s # NoLink /\ s # ""

NoResult == [kind |-> "none", lenses |-> <<>>]

\* A handler that has done nothing yet.
NoEffect ==
  [name |-> "none", editor |-> NoEditor, cursor |-> <<0, 0>>, args |-> <<>>,
   mode |-> "", res |-> NoResult, ret |-> NoResult,
   notifs |-> <<>>, warnings |-> <<>>, executed |-> <<>>, spawned |-> <<>>,
   posted |-> <<>>, threw |-> FALSE, sendOn |-> <<>>]

Notification(method, params) == [method |-> method, params |-> params]

NotInsideWarning == "Cursor is not inside an Alloy command!"
NoInstanceWarning == "No Alloy instances generated yet!"

(***************************************************************************)
(* The port: Math.floor(randomNumber(49152, 65535)).  Math.random() is a   *)
(* double in [0, 1); the model draws it as k / 2^RandBits and computes in  *)
(* fixed point, one unit being 1 / Unit.  The product with to - from + 1   *)
(* is exact in a double; the sum with from lies between 2^15 and 2^16,     *)
(* where doubles are Ulp of the product's units apart (2^-37 against       *)
(* 2^-39), so the sum is rounded to the nearest of them, ties to even.     *)
(***************************************************************************)
PortFrom == 49152
PortTo == 65535
Ulp == 4

Draws == 0..(2^RandBits - 1)
Unit == 2^RandBits \div (PortTo - PortFrom + 1)

\* Math.random() * span, in units
RandomTimes(k, span) == k * ((span * Unit) \div 2^RandBits)

\* the double nearest to x units
RoundToDouble(x) ==
  LET q == x \div Ulp
      r == x % Ulp
  IN  CASE 2 * r < Ulp -> q * Ulp
        [] 2 * r > Ulp -> (q + 1) * Ulp
        [] OTHER -> IF q % 2 = 0 THEN q * Ulp ELSE (q + 1) * Ulp

Max(a, b) == IF a >= b THEN a ELSE b

\* A randomNumber without its two if statements.
ClampNever(res, from, to) == res

\* if(res > to) res = to; if (res < from) res = from;
Clamp(res, from, to) ==
  LET res1 == IF res > to THEN to ELSE res
  IN  IF res1 < from THEN from ELSE res1

\* randomNumber(from, to) when Math.random() returns k / 2^RandBits, in units
randomNumber(from, to, k) ==
  LET newTo == Max(from, to)
      newFrom == IF from <= to THEN from ELSE to
      res == RoundToDouble(newFrom * Unit + RandomTimes(k, newTo - newFrom + 1))
  IN  Clamp(res, newFrom * Unit, newTo * Unit)

\* Math.floor of a non-negative number of units
Floor(x) == x \div Unit

PortOf(k) == Floor(randomNumber(PortFrom, PortTo, k))

\* activate() has run up to its await: the port is chosen, the listener is
\* being bound.
Init ==
  /\ pc = "awaitListen"
  /\ random = 0
  /\ port = PortOf(0)
  /\ listener = "binding"
  /\ accepted = 0
  /\ transport = 0
  /\ client = "undefined"
  /\ handlers = FALSE
  /\ lsProc = "undefined"
  /\ commands = [d \in documentSelector |-> Absent]
  /\ pending = <<>>
  /\ issued = [d \in documentSelector |-> Absent]
  /\ latestInstanceLink = NoLink
  /\ webViewPanel = 0
  /\ panelsCreated = 0
  /\ livePanels = {}
  /\ visiblePanels = {}
  /\ pickers = <<>>
  /\ opens = <<>>
  /\ vizLog = <<>>
  /\ lastOp = NoEffect

(***************************************************************************)
(* Activation: the commands are registered (lines 62-128), then activate() *)
(* awaits the listener; when it is bound the rest of activate() runs to    *)
(* its end without another await.                                          *)
(***************************************************************************)
\* activate() before the port is chosen, for every draw of Math.random().
InitPort ==
  /\ pc = "start"
  /\ random \in Draws
  /\ port = 0
  /\ listener = "binding"
  /\ accepted = 0
  /\ transport = 0
  /\ client = "undefined"
  /\ handlers = FALSE
  /\ lsProc = "undefined"
  /\ commands = [d \in documentSelector |-> Absent]
  /\ pending = <<>>
  /\ issued = [d \in documentSelector |-> Absent]
  /\ latestInstanceLink = NoLink
  /\ webViewPanel = 0
  /\ panelsCreated = 0
  /\ livePanels = {}
  /\ visiblePanels = {}
  /\ pickers = <<>>
  /\ opens = <<>>
  /\ vizLog = <<>>
  /\ lastOp = NoEffect

\* let port = Math.floor(randomNumber(49152, 65535)), then the listener is
\* created and activate() awaits it.
ChoosePort ==
  /\ pc = "start"
  /\ port' = PortOf(random)
  /\ pc' = "awaitListen"
  /\ UNCHANGED <<random, listener, accepted, transport, client, handlers, lsProc, lensVars,
                 latestInstanceLink, panelVars, pickers, vizVars, lastOp>>

\* How the promise awaited by createClientOwnedTCPServerOptions is settled
\* by an event of the listener: the listen callback calls continuation(),
\* the "error" listener calls rejectedContinuation(err).
ListenPromiseAlwaysResolved(event) == "resolved"

ListenPromise(event) == IF event = "listening" THEN "resolved" ELSE "rejected"

\* activate() after its await: on a resolved promise lines 172-221 run to the
\* end (the client is created and started, the worker is spawned); on a
\* rejected one the await throws and activate() ends there.
AfterAwait(settled) ==
  IF settled = "resolved"
    THEN pc' = "awaitReady" /\ client' = "started" /\ lsProc' = "spawned"
    ELSE pc' = "failed" /\ UNCHANGED <<client, lsProc>>

\* The listen callback resolves the promise: lines 172-178, 217 and 221.
ListenerBound ==
  /\ pc = "awaitListen"
  /\ listener' = "listening"
  /\ AfterAwait(ListenPromise("listening"))
  /\ UNCHANGED <<random, port, accepted, transport, handlers, lensVars, latestInstanceLink,
                 panelVars, pickers, vizVars, lastOp>>

\* The listener's "error" event rejects the promise; activate() rejects.
ListenerError ==
  /\ pc = "awaitListen"
  /\ listener' = "failed"
  /\ AfterAwait(ListenPromise("error"))
  /\ UNCHANGED <<random, port, accepted, transport, handlers, lensVars, latestInstanceLink,
                 panelVars, pickers, vizVars, lastOp>>

\* The first inbound connection: the createServer callback resolves
\* streamPromise with the socket, which becomes the client's reader and
\* writer.  The listener is not closed.
WorkerConnects ==
  /\ listener = "listening"
  /\ accepted = 0
  /\ accepted' = 1
  /\ transport' = 1
  /\ UNCHANGED <<pc, random, port, listener, client, handlers, lsProc, lensVars,
                 latestInstanceLink, panelVars, pickers, vizVars, lastOp>>

\* A further inbound connection: the callback runs again, resolve() on the
\* settled streamPromise does nothing.
AnotherConnection ==
  /\ listener = "listening"
  /\ accepted >= 1
  /\ accepted < MaxConnections
  /\ accepted' = accepted + 1
  /\ UNCHANGED <<pc, random, port, listener, transport, client, handlers, lsProc, lensVars,
                 latestInstanceLink, panelVars, pickers, vizVars, lastOp>>

\* client.onReady().then(...): the three notification handlers are registered.
\* The client is ready once it has initialized the worker over the stream.
ClientReady ==
  /\ pc = "awaitReady"
  /\ transport # 0
  /\ pc' = "ready"
  /\ handlers' = TRUE
  /\ UNCHANGED <<bridgeVars, client, lsProc, lensVars, latestInstanceLink, panelVars, pickers,
                 vizVars, lastOp>>

\* The three notifications of the worker that the client handles.
WorkerNotifications ==
  {"alloy/showExecutionOutput", "alloy/commandsListResult", "alloy/OpenModel"}

\* The worker sends one of them while the onReady continuation has not run:
\* no handler is registered for it and it is dropped.
NotificationUnhandled(kind) ==
  /\ transport # 0
  /\ ~handlers
  /\ lastOp' = [NoEffect EXCEPT !.name = "notificationUnhandled", !.args = <<kind>>]
  /\ UNCHANGED <<activationVars, lensVars, latestInstanceLink, panelVars, pickers, vizVars>>

(***************************************************************************)
(* client.sendNotification: with client still undefined the call throws a  *)
(* TypeError and nothing is sent.                                          *)
(***************************************************************************)
ClientDefined == client # "undefined"

\* The effect of a handler whose only statement is client.sendNotification(n).
Send(e, n) ==
  IF ClientDefined
    THEN [e EXCEPT !.notifs = Append(@, n), !.sendOn = Append(@, client)]
    ELSE [e EXCEPT !.threw = TRUE, !.sendOn = Append(@, client)]

\* The handler of alloy.executeCommand run on args = <<uri, ind, line, char>>.
executeCommandHandler(e, args) ==
  IF IsString(args[1])
    THEN Send(e, Notification("ExecuteAlloyCommand", args))
    ELSE e

\* vscode.commands.executeCommand(id, ...args): the call is recorded and a
\* command this extension registered runs its handler.
HostExecuteCommand(e, id, args) ==
  LET called == [e EXCEPT !.executed = Append(@, [command |-> id, arguments |-> args])]
  IN IF id = "alloy.executeCommand" THEN executeCommandHandler(called, args) ELSE called


(***************************************************************************)
(* The registered commands (lines 62-128).  The active editor and the      *)
(* cursor are the host's state, read by the handler when it runs.          *)
(***************************************************************************)
Invocation(name, editor, cursor, args) ==
  [NoEffect EXCEPT !.name = name, !.editor = editor, !.cursor = cursor, !.args = args]

\* A handler that changes no variable of the extension.
OnlyEffect(e) ==
  /\ lastOp' = e
  /\ UNCHANGED <<activationVars, lensVars, latestInstanceLink, panelVars, pickers, vizVars>>

alloyJar == "org.alloytools.alloy.dist.jar"
Process(command, args) == [command |-> command, args |-> args]

\* alloy.executeCommand
ExecuteCommand(editor, args) ==
  OnlyEffect(executeCommandHandler(Invocation("alloy.executeCommand", editor, <<0, 0>>, args), args))

\* alloy.executeAllCommands
ExecuteAllCommands(editor) ==
  LET e == Invocation("alloy.executeAllCommands", editor, <<0, 0>>, <<>>)
  IN OnlyEffect(IF EditorIsAlloyFile(editor)
                  THEN Send(e, Notification("ExecuteAlloyCommand", <<UriToString(editor), -1, 0, 0>>))
                  ELSE e)

\* alloy.openAlloyEditor
OpenAlloyEditor(editor) ==
  LET e == Invocation("alloy.openAlloyEditor", editor, <<0, 0>>, <<>>)
  IN OnlyEffect(IF EditorIsAlloyFile(editor)
                  THEN [e EXCEPT !.spawned =
                          Append(@, Process("java", <<"-jar", alloyJar, "gui", fileName(editor)>>))]
                  ELSE [e EXCEPT !.spawned = Append(@, Process("java", <<"-jar", alloyJar>>))])

\* alloy.listCommands
ListCommands(editor) ==
  LET e == Invocation("alloy.listCommands", editor, <<0, 0>>, <<>>)
  IN OnlyEffect(IF EditorIsAlloyFile(editor)
                  THEN Send(e, Notification("ListAlloyCommands", <<UriToString(editor)>>))
                  ELSE e)

\* alloy.openLatestInstance
OpenLatestInstance(editor) ==
  LET e == Invocation("alloy.openLatestInstance", editor, <<0, 0>>, <<>>)
  IN OnlyEffect(IF Truthy(latestInstanceLink)
                  THEN Send(e, Notification("OpenModel", <<latestInstanceLink>>))
                  ELSE [e EXCEPT !.warnings = Append(@, NoInstanceWarning)])

\* commands.get(documentUri)
CacheGet(d) == IF d \in DOMAIN commands THEN commands[d] ELSE Absent

\* A predicate that leaves out range.contains(cursor).
LensMatchesAnywhere(l, cursor, uri) ==
  /\ l.command.present
  /\ Len(l.command.arguments) > 0
  /\ l.command.arguments[1] = uri

\* The predicate of docCommands.find on one lens: range.contains(cursor) &&
\* command!.arguments![0] === uri.  It throws on a lens that contains the
\* cursor and has no command.
LensThrows(l, cursor) == RangeContains(l.range, cursor) /\ ~l.command.present

LensMatches(l, cursor, uri) ==
  /\ RangeContains(l.range, cursor)
  /\ l.command.present
  /\ Len(l.command.arguments) > 0
  /\ l.command.arguments[1] = uri

Min(S) == CHOOSE m \in S : \A n \in S : m <= n

\* Array.prototype.find: the index at which the scan stops (0: it ran to the end).
FindStop(ls, cursor, uri) ==
  LET stops == {i \in 1..Len(ls) : LensThrows(ls[i], cursor) \/ LensMatches(ls[i], cursor, uri)}
  IN IF stops = {} THEN 0 ELSE Min(stops)

\* if(!commandFound) showWarningMessage(...)
WarnNotInside(e) == [e EXCEPT !.warnings = Append(@, NotInsideWarning)]

\* alloy.executeCommandUnderCursor
executeCommandUnderCursorHandler(editor, cursor) ==
  LET e == Invocation("alloy.executeCommandUnderCursor", editor, cursor, <<>>)
      docCommands == CacheGet(editor)
      stop == FindStop(docCommands.lenses, cursor, UriToString(editor))
  IN IF editor # NoEditor /\ docCommands.kind = "list" /\ stop # 0
       THEN IF LensThrows(docCommands.lenses[stop], cursor)
              THEN [e EXCEPT !.threw = TRUE]
              ELSE HostExecuteCommand(e, docCommands.lenses[stop].command.command,
                                      docCommands.lenses[stop].command.arguments)
       ELSE WarnNotInside(e)

ExecuteCommandUnderCursor(editor, cursor) ==
  OnlyEffect(executeCommandUnderCursorHandler(editor, cursor))

\* The arguments alloy.executeCommand is invoked with directly.
DirectArgs ==
  {<<UriToString("a.als"), 0, 0, 0>>, <<UriToString("b.md"), 1, 0, 1>>,
   <<Undefined, Undefined, Undefined, Undefined>>}

\* The cursor of an editor: one position when there is no editor to have one.
CursorsOf(editor) == IF editor = NoEditor THEN {<<0, 0>>} ELSE Positions

UserCommand ==
  \/ \E editor \in Editors, args \in DirectArgs : ExecuteCommand(editor, args)
  \/ \E editor \in Editors : ExecuteAllCommands(editor)
  \/ \E editor \in Editors : OpenAlloyEditor(editor)
  \/ \E editor \in Editors : ListCommands(editor)
  \/ \E editor \in Editors : OpenLatestInstance(editor)
  \/ \E editor \in Editors : \E cursor \in CursorsOf(editor) : ExecuteCommandUnderCursor(editor, cursor)


(***************************************************************************)
(* The middleware (lines 139-163) and actOnProvideResult (lines 362-368).  *)
(* next(document, token) returns either a result or a future of one.       *)
(***************************************************************************)
EmptyList == List(<<>>)
Future == [kind |-> "future", lenses |-> <<>>]

\* An intercept that returns the computed lenses in every mode.
CodeLensReturnAlways(mode, res) == res

\* return mode === "codelens" ? res : []
CodeLensReturn(mode, res) == IF mode = "codelens" THEN res ELSE EmptyList

\* commands.set(document.uri, codeLensRes) after the rewrite
CacheSet(doc, res) == [commands EXCEPT ![doc] = RewriteResult(res)]

Remove(q, i) == [j \in 1..(Len(q) - 1) |-> IF j < i THEN q[j] ELSE q[j + 1]]

\* The chained futures once a new request for doc is issued: theirs is no
\* longer the last request (history, the code keeps no such mark).
Superseded(doc) ==
  [j \in 1..Len(pending) |->
     IF pending[j].doc = doc THEN [pending[j] EXCEPT !.latest = FALSE] ELSE pending[j]]

\* provideCodeLenses when next() returns a result: the callback runs at once,
\* and the list returned is the one it has rewritten.
ProvideCodeLenses(doc, mode, res) ==
  /\ pc = "ready"
  /\ commands' = CacheSet(doc, res)
  /\ issued' = [issued EXCEPT ![doc] = RewriteResult(res)]
  /\ lastOp' = [NoEffect EXCEPT !.name = "provideCodeLenses", !.editor = doc, !.mode = mode,
                                !.res = res, !.ret = CodeLensReturn(mode, RewriteResult(res))]
  /\ pending' = Superseded(doc)
  /\ UNCHANGED <<activationVars, latestInstanceLink, panelVars, pickers, vizVars>>

\* provideCodeLenses when next() returns a future: the callback is chained.
ProvideCodeLensesLater(doc, mode, res) ==
  /\ pc = "ready"
  /\ Len(pending) < MaxPending
  /\ pending' = Append(Superseded(doc), [doc |-> doc, res |-> res, latest |-> TRUE])
  /\ issued' = [issued EXCEPT ![doc] = RewriteResult(res)]
  /\ lastOp' = [NoEffect EXCEPT !.name = "provideCodeLensesLater", !.editor = doc, !.mode = mode,
                                !.res = res, !.ret = CodeLensReturn(mode, Future)]
  /\ UNCHANGED <<activationVars, commands, latestInstanceLink, panelVars, pickers, vizVars>>

\* A chained future is fulfilled: res.then(func) runs the callback.
FutureResolved(i) ==
  /\ i \in 1..Len(pending)
  /\ commands' = CacheSet(pending[i].doc, pending[i].res)
  /\ pending' = Remove(pending, i)
  /\ lastOp' = [NoEffect EXCEPT !.name = "futureResolved", !.editor = pending[i].doc,
                                !.res = pending[i].res]
  /\ UNCHANGED <<activationVars, issued, latestInstanceLink, panelVars, pickers, vizVars>>

\* A chained future is rejected: the callback never runs.
FutureRejected(i) ==
  /\ i \in 1..Len(pending)
  /\ pending' = Remove(pending, i)
  /\ issued' = IF pending[i].latest THEN [issued EXCEPT ![pending[i].doc] = Absent] ELSE issued
  /\ lastOp' = [NoEffect EXCEPT !.name = "futureRejected", !.editor = pending[i].doc,
                                !.res = pending[i].res]
  /\ UNCHANGED <<activationVars, commands, latestInstanceLink, panelVars, pickers, vizVars>>

\* What the next handler returns for a document's links.
LinkResults ==
  {NullList, EmptyList} \cup {List(<<[range |-> r, target |-> "command:alloy.executeCommand"]>>) : r \in Ranges}

\* A link intercept that only checks that the mode is not "codelens".
DocumentLinksReturnUnlessCodeLens(mode, res) == IF mode # "codelens" THEN res ELSE EmptyList

\* return mode === "link" ? next(document, token) : []
DocumentLinksReturn(mode, res) == IF mode = "link" THEN res ELSE EmptyList

provideDocumentLinks(doc, mode, res) ==
  /\ pc = "ready"
  /\ lastOp' = [NoEffect EXCEPT !.name = "provideDocumentLinks", !.editor = doc, !.mode = mode,
                                !.res = res, !.ret = DocumentLinksReturn(mode, res)]
  /\ UNCHANGED <<activationVars, lensVars, latestInstanceLink, panelVars, pickers, vizVars>>

(***************************************************************************)
(* The webview panel (lines 248-299).                                      *)
(***************************************************************************)
\* A getWebViewPanel that never finds the panel it holds.
NeverHasPanel == FALSE

\* if (_webViewPanel) { ... return _webViewPanel; }
HasPanel == webViewPanel # 0

\* onDidDispose(() => { _webViewPanel = null; })
RefAfterDispose == 0

\* getWebViewPanel(): the panel it returns; it needs a fresh panel when none is held.
PanelReturned == IF HasPanel THEN webViewPanel ELSE panelsCreated + 1

getWebViewPanel ==
  IF HasPanel
    THEN /\ visiblePanels' = IF webViewPanel \in visiblePanels
                               THEN visiblePanels
                               ELSE visiblePanels \cup {webViewPanel}
         /\ UNCHANGED <<webViewPanel, panelsCreated, livePanels>>
    ELSE /\ panelsCreated < MaxPanels
         /\ panelsCreated' = panelsCreated + 1
         /\ webViewPanel' = panelsCreated + 1
         /\ livePanels' = livePanels \cup {panelsCreated + 1}
         /\ visiblePanels' = visiblePanels \cup {panelsCreated + 1}

Outputs == {[message |-> "Executing check1", messageType |-> 0, bold |-> FALSE],
            [message |-> "instance found", messageType |-> 1, bold |-> TRUE]}

\* client.onNotification("alloy/showExecutionOutput", ...)
ShowExecutionOutput(req) ==
  /\ handlers
  /\ getWebViewPanel
  /\ lastOp' = [NoEffect EXCEPT !.name = "alloy/showExecutionOutput",
                                !.posted = <<[panel |-> PanelReturned, payload |-> req,
                                              created |-> ~HasPanel,
                                              revealed |-> HasPanel /\ webViewPanel \notin visiblePanels]>>]
  /\ UNCHANGED <<activationVars, lensVars, latestInstanceLink, pickers, vizVars>>

\* The user closes the panel: the host disposes it and fires onDidDispose.
PanelDisposed(p) ==
  /\ p \in livePanels
  /\ livePanels' = livePanels \ {p}
  /\ visiblePanels' = visiblePanels \ {p}
  /\ webViewPanel' = RefAfterDispose
  /\ lastOp' = [NoEffect EXCEPT !.name = "panelDisposed", !.args = <<p>>]
  /\ UNCHANGED <<activationVars, lensVars, latestInstanceLink, panelsCreated, pickers, vizVars>>

\* The user covers the panel with another tab, or uncovers it.
PanelHidden(p) ==
  /\ p \in visiblePanels
  /\ visiblePanels' = visiblePanels \ {p}
  /\ lastOp' = [NoEffect EXCEPT !.name = "panelHidden", !.args = <<p>>]
  /\ UNCHANGED <<activationVars, lensVars, latestInstanceLink, webViewPanel, panelsCreated,
                 livePanels, pickers, vizVars>>

WebViewMethods == {"model", "instanceCreated", "stop", "other"}

\* A dispatch without the break after "instanceCreated": it falls into "stop".
handleWebViewMessageEffectFallThrough(e, method, link) ==
  CASE method = "model" -> Send(e, Notification("OpenModel", <<link>>))
    [] method \in {"stop", "instanceCreated"} -> Send(e, Notification("StopExecution", <<>>))
    [] OTHER -> e

\* handleWebViewMessage(req): the effect and the link held afterwards.
handleWebViewMessageEffect(e, method, link) ==
  CASE method = "model" -> Send(e, Notification("OpenModel", <<link>>))
    [] method = "stop" -> Send(e, Notification("StopExecution", <<>>))
    [] OTHER -> e

\* A dispatch in which "instanceCreated" records nothing.
handleWebViewMessageLinkModelOnly(method, link) ==
  IF method = "model" /\ ClientDefined THEN link ELSE latestInstanceLink

handleWebViewMessageLink(method, link) ==
  CASE method = "model" -> IF ClientDefined THEN link ELSE latestInstanceLink
    [] method = "instanceCreated" -> link
    [] OTHER -> latestInstanceLink

\* A message posted by the page of a live panel.
WebViewMessage(p, method, link) ==
  /\ p \in livePanels
  /\ latestInstanceLink' = handleWebViewMessageLink(method, link)
  /\ lastOp' = handleWebViewMessageEffect(
                 [NoEffect EXCEPT !.name = "webViewMessage", !.args = <<method, link>>], method, link)
  /\ UNCHANGED <<activationVars, lensVars, panelVars, pickers, vizVars>>


(***************************************************************************)
(* alloy/commandsListResult (lines 190-198): a quick pick over the items.  *)
(***************************************************************************)
ItemPool ==
  {[title |-> "Run check1", command |-> Cmd("alloy.executeCommand", <<UriToString("a.als"), 0, 0, 0>>)],
   [title |-> "Run show", command |-> Cmd("alloy.executeCommand", <<UriToString("a.als"), 1, 0, 1>>)],
   [title |-> "Save", command |-> Cmd("workbench.action.files.save", <<>>)]}

\* res.commands of a notification: no item, one item, or two different items.
CommandLists ==
  {<<>>} \cup {<<i>> : i \in ItemPool}
  \cup {<<p[1], p[2]>> : p \in {q \in ItemPool \X ItemPool : q[1] # q[2]}}

CommandsListResult(items) ==
  /\ handlers
  /\ Len(pickers) < MaxPickers
  /\ pickers' = Append(pickers, items)
  /\ lastOp' = [NoEffect EXCEPT !.name = "alloy/commandsListResult"]
  /\ UNCHANGED <<activationVars, lensVars, latestInstanceLink, panelVars, vizVars>>

\* A continuation that drops the picked item.
pickedItemIgnored(e, item) == e

\* .then(item => executeCommand(item!.command.command, ...item!.command.arguments!))
\* with the item the user picked.
pickedItemEffect(e, item) == HostExecuteCommand(e, item.command.command, item.command.arguments)

PickerSelect(i, k) ==
  /\ i \in 1..Len(pickers)
  /\ k \in 1..Len(pickers[i])
  /\ pickers' = Remove(pickers, i)
  /\ lastOp' = pickedItemEffect([NoEffect EXCEPT !.name = "pickerSelect", !.args = <<pickers[i][k]>>],
                                pickers[i][k])
  /\ UNCHANGED <<activationVars, lensVars, latestInstanceLink, panelVars, vizVars>>

\* The quick pick is dismissed: item is undefined and item!.command throws.
PickerDismiss(i) ==
  /\ i \in 1..Len(pickers)
  /\ pickers' = Remove(pickers, i)
  /\ lastOp' = [NoEffect EXCEPT !.name = "pickerDismiss", !.threw = TRUE]
  /\ UNCHANGED <<activationVars, lensVars, latestInstanceLink, panelVars, vizVars>>

(***************************************************************************)
(* alloy/OpenModel (lines 200-212): pkill is spawned, and the visualizer   *)
(* is spawned by the 'close' listener of that pkill process.               *)
(***************************************************************************)
Paths == {"/tmp/a.xml", "/tmp/b.xml"}

\* A handler that spawns the visualizer itself, before pkill.
openModelSpawnsVisualizerFirst(n) == <<[proc |-> "viz", n |-> n], [proc |-> "pkill", n |-> n]>>

\* What the handler itself spawns.
openModelSpawns(n) == <<[proc |-> "pkill", n |-> n]>>

\* What the 'close' listener of the n-th pkill spawns.
killCloseSpawns(n) == <<[proc |-> "viz", n |-> n]>>

OpenModelNotification(path) ==
  /\ handlers
  /\ Len(opens) < MaxOpenModel
  /\ opens' = Append(opens, [path |-> path, kill |-> "running", viz |-> "none"])
  /\ vizLog' = vizLog \o openModelSpawns(Len(opens) + 1)
  /\ lastOp' = [NoEffect EXCEPT !.name = "alloy/OpenModel", !.args = <<path>>,
                                !.spawned = <<Process("pkill", <<"-f", "viz">>)>>]
  /\ UNCHANGED <<activationVars, lensVars, latestInstanceLink, panelVars, pickers>>

\* The n-th pkill process does its work: every visualizer alive is killed.
KillRuns(n) ==
  /\ n \in 1..Len(opens)
  /\ opens[n].kill = "running"
  /\ opens' = [i \in 1..Len(opens) |->
                 [opens[i] EXCEPT !.kill = IF i = n THEN "exited" ELSE @,
                                  !.viz = IF @ = "alive" THEN "killed" ELSE @]]
  /\ lastOp' = [NoEffect EXCEPT !.name = "killRuns", !.args = <<n>>]
  /\ UNCHANGED <<activationVars, lensVars, latestInstanceLink, panelVars, pickers, vizLog>>

\* killProcess.on('close', ...) of the n-th pkill: the visualizer is spawned.
KillClose(n) ==
  /\ n \in 1..Len(opens)
  /\ opens[n].kill = "exited"
  /\ opens' = [opens EXCEPT ![n].kill = "closed", ![n].viz = "alive"]
  /\ vizLog' = vizLog \o killCloseSpawns(n)
  /\ lastOp' = [NoEffect EXCEPT !.name = "killClose", !.args = <<n>>,
                                !.spawned = <<Process("java", <<"-jar", alloyJar, "viz", opens[n].path>>)>>]
  /\ UNCHANGED <<activationVars, lensVars, latestInstanceLink, panelVars, pickers>>

\* The user closes the window of the n-th visualizer.
VisualizerExits(n) ==
  /\ n \in 1..Len(opens)
  /\ opens[n].viz = "alive"
  /\ opens' = [opens EXCEPT ![n].viz = "exited"]
  /\ lastOp' = [NoEffect EXCEPT !.name = "visualizerExits", !.args = <<n>>]
  /\ UNCHANGED <<activationVars, lensVars, latestInstanceLink, panelVars, pickers, vizLog>>

(***************************************************************************)
(* Specifications.  Next is every step of the extension; the others keep   *)
(* to one part of it, with the activation they all depend on.              *)
(***************************************************************************)
Activation == ListenerBound \/ ListenerError \/ WorkerConnects \/ ClientReady

LensRequest ==
  \/ \E doc \in LensDocs, mode \in Modes : \E res \in ShortLensResults(doc) :
       ProvideCodeLenses(doc, mode, res)
  \/ \E doc \in LensDocs, mode \in Modes : \E res \in ShortLensResults(doc) :
       ProvideCodeLensesLater(doc, mode, res)
  \/ \E i \in 1..Len(pending) : FutureResolved(i)
  \/ \E i \in 1..Len(pending) : FutureRejected(i)
  \/ \E doc \in LensDocs, mode \in Modes, res \in LinkResults :
       provideDocumentLinks(doc, mode, res)

CursorLookup ==
  \/ \E doc \in LensDocs, mode \in Modes : \E res \in LensResults(doc) :
       ProvideCodeLenses(doc, mode, res)
  \/ \E editor \in Editors : \E cursor \in CursorsOf(editor) : ExecuteCommandUnderCursor(editor, cursor)

Panel ==
  \/ \E req \in Outputs : ShowExecutionOutput(req)
  \/ \E p \in livePanels : PanelDisposed(p)
  \/ \E p \in livePanels : PanelHidden(p)
  \/ \E p \in livePanels, method \in WebViewMethods, link \in Links : WebViewMessage(p, method, link)

Picker ==
  \/ \E items \in CommandLists : CommandsListResult(items)
  \/ \E i \in 1..Len(pickers) : \E k \in 1..Len(pickers[i]) : PickerSelect(i, k)
  \/ \E i \in 1..Len(pickers) : PickerDismiss(i)

Visualizer ==
  \/ \E path \in Paths : OpenModelNotification(path)
  \/ \E n \in 1..Len(opens) : KillRuns(n)
  \/ \E n \in 1..Len(opens) : KillClose(n)
  \/ \E n \in 1..Len(opens) : VisualizerExits(n)

\* What else can reach the extension while it activates.
Bridge ==
  \/ AnotherConnection
  \/ \E kind \in WorkerNotifications : NotificationUnhandled(kind)

Next ==
  \/ ChoosePort
  \/ Activation \/ Bridge
  \/ UserCommand \/ LensRequest \/ CursorLookup \/ Panel \/ Picker \/ Visualizer

Spec == Init /\ [][Next]_vars

\* The choice of the port, for every draw.
SpecPort == InitPort /\ [][ChoosePort]_vars

\* The activation, the transport bridge and the commands registered before it.
SpecActivation == Init /\ [][Activation \/ Bridge \/ UserCommand]_vars

\* The code-lens / link middleware and the futures it chains, with the
\* lookup of the cursor in the documents it caches.
SpecLens ==
  Init /\ [][Activation \/ LensRequest
             \/ (\E editor \in LensDocs : \E cursor \in CursorsOf(editor) :
                   ExecuteCommandUnderCursor(editor, cursor))]_vars

\* The cache and the lookup of the cursor in it.
SpecCursor == Init /\ [][Activation \/ CursorLookup]_vars

\* The registered commands, the panel and the latest-instance link.
SpecCommands ==
  Init /\ [][Activation \/ UserCommand \/ Panel
             \/ (\E path \in Paths : OpenModelNotification(path))]_vars

\* The quick pick of alloy/commandsListResult.
SpecPicker ==
  Init /\ [][Activation \/ Picker
             \/ (\E editor \in Editors, args \in DirectArgs : ExecuteCommand(editor, args))]_vars

\* The visualizer processes of alloy/OpenModel.
SpecVisualizer == Init /\ [][Activation \/ Visualizer]_vars


(***************************************************************************)
(* Execute-under-cursor.                                                   *)
(***************************************************************************)
UnderCursorRan == lastOp.name = "alloy.executeCommandUnderCursor"

\* The cached regions of the editor's document, none when nothing is cached.
CachedRegions(editor) ==
  IF editor # NoEditor /\ CacheGet(editor).kind = "list" THEN CacheGet(editor).lenses ELSE <<>>

Inside(region, cursor) == PosLE(region.range.start, cursor) /\ PosLE(cursor, region.range.end)

\* The regions that contain the cursor and whose first argument is the URI.
HitRegions(editor, cursor) ==
  {i \in 1..Len(CachedRegions(editor)) :
     LET region == CachedRegions(editor)[i]
     IN /\ Inside(region, cursor)
        /\ region.command.present
        /\ region.command.arguments[1] = UriToString(editor)}

\* C1: when some cached region of the active document contains the cursor
\* and carries the document's URI as first argument, execute-under-cursor
\* invokes alloy.executeCommand exactly once, with the arguments of the first
\* such region, and shows no warning.
C1_HitExecutesFirstRegion ==
  (UnderCursorRan /\ HitRegions(lastOp.editor, lastOp.cursor) # {}) =>
    /\ lastOp.executed =
         <<[command |-> "alloy.executeCommand",
            arguments |-> CachedRegions(lastOp.editor)[Min(HitRegions(lastOp.editor, lastOp.cursor))]
                            .command.arguments]>>
    /\ lastOp.warnings = <<>>

\* C2: when the cursor is outside every cached region of the active document
\* (no editor, no cache entry, a null or an empty list included),
\* execute-under-cursor sends no notification, invokes no command and shows
\* the "not inside" warning exactly once.
C2_MissWarnsOnce ==
  (UnderCursorRan /\ \A i \in 1..Len(CachedRegions(lastOp.editor)) :
                        ~Inside(CachedRegions(lastOp.editor)[i], lastOp.cursor)) =>
    /\ lastOp.notifs = <<>>
    /\ lastOp.executed = <<>>
    /\ lastOp.warnings = <<NotInsideWarning>>
    /\ ~lastOp.threw

\* A miss on a document whose cached list is not empty.
C2_Witness ==
  /\ UnderCursorRan
  /\ Len(CachedRegions(lastOp.editor)) = 2
  /\ \A i \in 1..2 : ~Inside(CachedRegions(lastOp.editor)[i], lastOp.cursor)
  /\ lastOp.warnings = <<NotInsideWarning>>


(***************************************************************************)
(* The code-lens intercept in "link" mode.                                 *)
(***************************************************************************)
\* cached is the computed result itself: the same regions in the same order,
\* with the same arguments, every command routed to alloy.executeCommand.
IsRealList(cached, computed) ==
  /\ cached.kind = computed.kind
  /\ Len(cached.lenses) = Len(computed.lenses)
  /\ \A i \in 1..Len(computed.lenses) :
       /\ cached.lenses[i].range = computed.lenses[i].range
       /\ cached.lenses[i].command.present = computed.lenses[i].command.present
       /\ cached.lenses[i].command.arguments = computed.lenses[i].command.arguments
       /\ cached.lenses[i].command.present =>
            cached.lenses[i].command.command = "alloy.executeCommand"

\* C3: in "link" mode the code-lens intercept returns an empty list whatever
\* the underlying computation returns, and the cache of the document holds
\* the computed list: at once for a plain list, once the future is resolved
\* for a future.
C3_LinkModeHidesButCaches ==
  /\ (lastOp.name \in {"provideCodeLenses", "provideCodeLensesLater"} /\ lastOp.mode = "link") =>
       lastOp.ret = EmptyList
  /\ lastOp.name \in {"provideCodeLenses", "futureResolved"} =>
       IsRealList(commands[lastOp.editor], lastOp.res)

\* A request in "link" mode that computed a lens: nothing is returned to the
\* host and the lens is in the cache.
C3_Witness ==
  /\ lastOp.name = "provideCodeLenses"
  /\ lastOp.mode = "link"
  /\ Len(lastOp.res.lenses) = 1
  /\ lastOp.res.lenses[1].command.present
  /\ lastOp.ret = EmptyList
  /\ Len(commands[lastOp.editor].lenses) = 1

(***************************************************************************)
(* alloy/OpenModel twice.                                                  *)
(***************************************************************************)
SpawnsOf(proc) == {j \in 1..Len(vizLog) : vizLog[j].proc = proc}

\* C4: every alloy/OpenModel notification makes one kill attempt and, once
\* the kill process has closed, one visualizer spawn: never more visualizer
\* spawns than kill attempts, each visualizer spawn after the kill attempt of
\* its own notification, and for two notifications exactly two visualizer
\* spawns and two kill attempts once both kill processes have closed.
C4_OneKillBeforeEachSpawn ==
  /\ Cardinality(SpawnsOf("pkill")) = Len(opens)
  /\ \A j \in SpawnsOf("viz") :
       /\ \E i \in 1..(j - 1) : vizLog[i] = [proc |-> "pkill", n |-> vizLog[j].n]
       /\ \A k \in SpawnsOf("viz") : vizLog[k].n = vizLog[j].n => k = j
  /\ \A n \in 1..Len(opens) :
       opens[n].kill = "closed" <=> (\E j \in SpawnsOf("viz") : vizLog[j].n = n)

\* Two notifications whose kill processes closed in the opposite order.
C4_Witness ==
  /\ Len(opens) = 2
  /\ vizLog = <<[proc |-> "pkill", n |-> 1], [proc |-> "pkill", n |-> 2],
                [proc |-> "viz", n |-> 2], [proc |-> "viz", n |-> 1]>>

(***************************************************************************)
(* The quick pick.                                                         *)
(***************************************************************************)
\* C5: after alloy/commandsListResult a host command is executed exactly
\* when the user selects an item, once, with the command identifier and the
\* arguments of that item; a dismissed quick pick executes nothing and sends
\* nothing.
C5_PickerExecutesSelection ==
  /\ lastOp.name = "pickerSelect" =>
       /\ lastOp.executed = <<[command |-> lastOp.args[1].command.command,
                               arguments |-> lastOp.args[1].command.arguments]>>
       /\ Len(lastOp.notifs) <= 1
  /\ lastOp.name \in {"pickerDismiss", "alloy/commandsListResult"} =>
       lastOp.executed = <<>> /\ lastOp.notifs = <<>>

C5_Witness ==
  /\ lastOp.name = "pickerSelect"
  /\ lastOp.executed = <<[command |-> "alloy.executeCommand",
                          arguments |-> <<"file:///a.als", 0, 0, 0>>]>>
  /\ lastOp.notifs = <<Notification("ExecuteAlloyCommand", <<"file:///a.als", 0, 0, 0>>)>>


(***************************************************************************)
(* The webview panel and the latest-instance link.                         *)
(***************************************************************************)
OutputShown == lastOp.name = "alloy/showExecutionOutput"

\* C6: at most one webview panel exists at any time: the reference is empty
\* exactly when no panel is live and otherwise is the one live panel (so a
\* panel is created only on an empty reference and the reference is cleared
\* when the user disposes the panel), and every alloy/showExecutionOutput
\* payload is posted once, to that panel, which is then visible.
C6_AtMostOnePanel ==
  /\ Cardinality(livePanels) <= 1
  /\ livePanels = IF webViewPanel = 0 THEN {} ELSE {webViewPanel}
  /\ OutputShown =>
       /\ Len(lastOp.posted) = 1
       /\ lastOp.posted[1].panel = webViewPanel
       /\ webViewPanel \in livePanels \cap visiblePanels
       /\ ~(lastOp.posted[1].created /\ lastOp.posted[1].revealed)

\* An output posted to the panel created after the user closed the first one.
C6_Witness ==
  /\ OutputShown
  /\ lastOp.posted[1].created
  /\ lastOp.posted[1].panel = 2
  /\ livePanels = {2}

WebViewReported ==
  /\ lastOp.name = "webViewMessage"
  /\ lastOp.args[1] \in {"model", "instanceCreated"}

OpenLatestRan == lastOp.name = "alloy.openLatestInstance"

\* C7 as stated: the reference is overwritten both by alloy/OpenModel from
\* the worker (with its path) and by the webview's "model" and
\* "instanceCreated" messages (with their link).
C7_WorkerAndWebviewOverwrite ==
  /\ lastOp.name = "alloy/OpenModel" => latestInstanceLink = lastOp.args[1]
  /\ WebViewReported => latestInstanceLink = lastOp.args[2]

\* C7 as amended: only the webview overwrites the reference: after a "model"
\* or "instanceCreated" message with link L the reference is L, and a
\* following open-latest-artifact opens the reference; an alloy/OpenModel
\* notification from the worker leaves the reference as it was.
C7_WebviewOverwritesWorkerDoesNot ==
  /\ [](WebViewReported => latestInstanceLink = lastOp.args[2])
  /\ []((OpenLatestRan /\ latestInstanceLink \in Links) =>
          lastOp.notifs = <<Notification("OpenModel", <<latestInstanceLink>>)>>)
  /\ [][(\E path \in Paths : OpenModelNotification(path)) =>
          latestInstanceLink' = latestInstanceLink]_vars

\* The second instance reported by the webview replaces the first, after the
\* worker has sent an alloy/OpenModel.
C7_Witness ==
  /\ WebViewReported
  /\ lastOp.args = <<"instanceCreated", "instance2.xml">>
  /\ latestInstanceLink = "instance2.xml"
  /\ Len(opens) > 0

(***************************************************************************)
(* The preconditions of the registered commands.                           *)
(***************************************************************************)
UserActions ==
  {"alloy.executeCommand", "alloy.executeAllCommands", "alloy.executeCommandUnderCursor",
   "alloy.openAlloyEditor", "alloy.listCommands", "alloy.openLatestInstance"}

\* no active editor, an untitled document, or a language that is not recognized
NoAlloyDocument(editor) ==
  \/ editor = NoEditor
  \/ editor = "Untitled-1"
  \/ languageId(editor) \notin {"alloy", "markdown"}

\* C8 as stated: each of the six actions, run without an active, saved,
\* recognized-language document, sends no notification and spawns no process.
C8_EveryActionValidates ==
  (lastOp.name \in UserActions /\ NoAlloyDocument(lastOp.editor)) =>
    lastOp.notifs = <<>> /\ lastOp.spawned = <<>>

\* C8 as amended: execute-all and list-commands, run without an active,
\* saved, recognized-language document, do nothing at all; execute-under-cursor
\* run without an active editor only shows its warning; open-external-editor
\* then sends nothing and spawns the editor without a file argument.
\* Execute-one and open-latest-artifact do not look at the active document.
C8_ValidatingActions ==
  /\ (lastOp.name \in {"alloy.executeAllCommands", "alloy.listCommands"}
      /\ NoAlloyDocument(lastOp.editor)) =>
       lastOp.notifs = <<>> /\ lastOp.spawned = <<>> /\ lastOp.warnings = <<>> /\ ~lastOp.threw
  /\ (UnderCursorRan /\ lastOp.editor = NoEditor) =>
       /\ lastOp.notifs = <<>> /\ lastOp.spawned = <<>> /\ lastOp.executed = <<>>
       /\ lastOp.warnings = <<NotInsideWarning>>
  /\ (lastOp.name = "alloy.openAlloyEditor" /\ NoAlloyDocument(lastOp.editor)) =>
       /\ lastOp.notifs = <<>>
       /\ lastOp.spawned = <<Process("java", <<"-jar", alloyJar>>)>>

\* List-commands on an untitled Alloy document, with the client running.
C8_Witness ==
  /\ lastOp.name = "alloy.listCommands"
  /\ lastOp.editor = "Untitled-1"
  /\ client = "started"
  /\ lastOp.notifs = <<>>

\* C9: execute-all sends nothing when there is no active editor, the document
\* is untitled or its language is not recognized, and otherwise sends exactly
\* one ExecuteAlloyCommand notification with [uri, -1, 0, 0].
C9_ExecuteAll ==
  lastOp.name = "alloy.executeAllCommands" =>
    lastOp.notifs =
      IF NoAlloyDocument(lastOp.editor)
        THEN <<>>
        ELSE <<Notification("ExecuteAlloyCommand", <<UriToString(lastOp.editor), -1, 0, 0>>)>>

\* C10: open-latest-artifact sends one OpenModel notification with the
\* recorded reference when one has been recorded, and otherwise sends nothing
\* and shows the "no instances" warning once; it never changes the reference.
C10_OpenLatest ==
  /\ [](OpenLatestRan =>
          IF latestInstanceLink # NoLink
            THEN /\ lastOp.notifs = <<Notification("OpenModel", <<latestInstanceLink>>)>>
                 /\ lastOp.warnings = <<>>
            ELSE /\ lastOp.notifs = <<>>
                 /\ lastOp.warnings = <<NoInstanceWarning>>)
  /\ [][(\E editor \in Editors : OpenLatestInstance(editor)) =>
          latestInstanceLink' = latestInstanceLink]_vars

C10_Witness ==
  /\ OpenLatestRan
  /\ latestInstanceLink = "instance1.xml"
  /\ lastOp.notifs = <<Notification("OpenModel", <<"instance1.xml">>)>>


(***************************************************************************)
(* The dispatch of the webview's messages.                                 *)
(***************************************************************************)
WebViewSaid(method) == lastOp.name = "webViewMessage" /\ lastOp.args[1] = method

WebViewStep(method) ==
  \E p \in livePanels, link \in Links : WebViewMessage(p, method, link)

\* C11: a "model" message sends exactly one OpenModel notification with its
\* link and records the link; "instanceCreated" records the link and sends
\* nothing; "stop" sends exactly one StopExecution without arguments and
\* leaves the reference as it was; any other tag sends nothing and changes
\* no state.
C11_WebViewDispatch ==
  /\ [](WebViewSaid("model") =>
          /\ lastOp.notifs = <<Notification("OpenModel", <<lastOp.args[2]>>)>>
          /\ latestInstanceLink = lastOp.args[2])
  /\ [](WebViewSaid("instanceCreated") =>
          lastOp.notifs = <<>> /\ latestInstanceLink = lastOp.args[2])
  /\ [](WebViewSaid("stop") => lastOp.notifs = <<Notification("StopExecution", <<>>)>>)
  /\ [](WebViewSaid("other") => lastOp.notifs = <<>>)
  /\ [][WebViewStep("stop") => latestInstanceLink' = latestInstanceLink]_vars
  /\ [][WebViewStep("other") =>
          UNCHANGED <<activationVars, lensVars, latestInstanceLink, panelVars, pickers, vizVars>>]_vars

\* A "stop" message after a link was recorded.
C11_Witness ==
  /\ WebViewSaid("stop")
  /\ latestInstanceLink = "instance1.xml"
  /\ lastOp.notifs = <<Notification("StopExecution", <<>>)>>

(***************************************************************************)
(* The port.                                                               *)
(***************************************************************************)
\* C12: for every draw of Math.random() the port chosen at activation is an
\* integer of the closed interval [49152, 65535].
C12_PortInRange == pc # "start" => port \in PortFrom..PortTo

\* The largest draw: the sum is rounded up to 65536, the clamp brings it back
\* to 65535, the upper endpoint.
C12_Witness ==
  /\ pc = "awaitListen"
  /\ random = 2^RandBits - 1
  /\ RoundToDouble(PortFrom * Unit + RandomTimes(random, PortTo - PortFrom + 1)) > PortTo * Unit
  /\ port = PortTo

(***************************************************************************)
(* The display mode.                                                       *)
(***************************************************************************)
NonEmpty(r) == r.kind = "future" \/ Len(r.lenses) > 0

\* C13: the code-lens intercept returns what was computed only in mode
\* "codelens" and an empty list in every other mode; the link intercept
\* returns what the next handler gives only in mode "link" and an empty list
\* in every other mode; so no mode gives both lenses and links, and a mode
\* that is neither "codelens" nor "link" gives neither.
C13_ModeSelectsOneRendering ==
  /\ lastOp.name = "provideCodeLenses" =>
       lastOp.ret = IF lastOp.mode = "codelens" THEN RewriteResult(lastOp.res) ELSE EmptyList
  /\ lastOp.name = "provideCodeLensesLater" =>
       lastOp.ret = IF lastOp.mode = "codelens" THEN Future ELSE EmptyList
  /\ lastOp.name = "provideDocumentLinks" =>
       lastOp.ret = IF lastOp.mode = "link" THEN lastOp.res ELSE EmptyList
  /\ \A mode \in Modes, doc \in LensDocs, links \in LinkResults :
       \A res \in ShortLensResults(doc) \cup {Future} :
         /\ ~(NonEmpty(CodeLensReturn(mode, res)) /\ NonEmpty(DocumentLinksReturn(mode, links)))
         /\ mode \notin {"codelens", "link"} =>
              ~NonEmpty(CodeLensReturn(mode, res)) /\ ~NonEmpty(DocumentLinksReturn(mode, links))

\* The next handler has a link, the mode is neither of the two: no link is
\* returned.
C13_Witness ==
  /\ lastOp.name = "provideDocumentLinks"
  /\ lastOp.mode = ""
  /\ Len(lastOp.res.lenses) = 1
  /\ lastOp.ret = EmptyList

(***************************************************************************)
(* The order of the startup.                                               *)
(***************************************************************************)
\* C14: activate() gets past its await only once the listener is bound, so
\* the client exists and the worker is spawned only with a bound listener;
\* a listener that fails to bind rejects the promise, and from then on there
\* is no client and no worker.
C14_StartupOrdering ==
  /\ pc \in {"awaitReady", "ready"} => listener = "listening"
  /\ (client = "started" \/ lsProc = "spawned") => listener = "listening"
  /\ listener = "failed" => pc = "failed" /\ client = "undefined" /\ lsProc = "undefined"

\* The bind failed and a command was run afterwards: still no client, no worker.
C14_Witness ==
  /\ listener = "failed"
  /\ pc = "failed"
  /\ lastOp.name = "alloy.listCommands"
  /\ lastOp.threw
  /\ lsProc = "undefined"

(***************************************************************************)
(* The transport bridge.                                                   *)
(***************************************************************************)
\* C15: once the first inbound connection is accepted the listener listens
\* no more, so it accepts at most one connection, and the stream the client
\* reads and writes is that first connection's.
C15_BridgeStopsListening ==
  /\ accepted >= 1 => listener # "listening"
  /\ accepted <= 1
  /\ accepted >= 1 => transport = 1

(***************************************************************************)
(* The notification handlers.                                              *)
(***************************************************************************)
\* C16: the handlers of the three notifications are registered before the
\* client is started, so none of the three is ever received from the worker
\* while its handler is not registered.
C16_HandlersBeforeStart ==
  /\ client = "started" => handlers
  /\ lastOp.name # "notificationUnhandled"

(***************************************************************************)
(* The last code-lens request.                                             *)
(***************************************************************************)
PendingFor(doc) == {j \in 1..Len(pending) : pending[j].doc = doc}

\* C17: once no future of a document is outstanding, its cache entry is the
\* (rewritten) list that next() gave the request issued last for it, in
\* whatever order the futures were resolved; a last request whose future was
\* rejected gave no list and sets no expectation.
C17_CacheHoldsLastRequest ==
  \A doc \in LensDocs :
    (PendingFor(doc) = {} /\ issued[doc] # Absent) => commands[doc] = issued[doc]

(***************************************************************************)
(* The visualizers alive.                                                  *)
(***************************************************************************)
Alive == {n \in 1..Len(opens) : opens[n].viz = "alive"}

AllClosed == \A n \in 1..Len(opens) : opens[n].kill = "closed"

\* C18: once the kill process of every alloy/OpenModel notification has
\* closed (and so every visualizer has been spawned), at most one visualizer
\* is alive, and it is the one of the last notification.
C18_OneVisualizerAlive == AllClosed => Alive \subseteq {Len(opens)}

\* C19 as claimed: the relaunch does not wait for the kill, that is, while
\* the kill process of a notification is still running the step that spawns
\* the visualizer of that notification can already be taken.
C19_RelaunchDoesNotWait ==
  \A n \in 1..Len(opens) : opens[n].kill = "running" => ENABLED KillClose(n)

\* C19 as amended: a visualizer is spawned only after the kill process of
\* its own notification has closed, in the log right after nothing but that
\* kill's spawn and other notifications' steps; the kill processes of other
\* notifications are not waited for.
C19_RelaunchWaitsForOwnKill ==
  \A j \in SpawnsOf("viz") :
    /\ opens[vizLog[j].n].kill = "closed"
    /\ \E i \in SpawnsOf("pkill") : i < j /\ vizLog[i].n = vizLog[j].n

\* The visualizer of the first notification is spawned while the kill
\* process of the second one is still running.
C19_Witness ==
  /\ Len(opens) = 2
  /\ opens[1].viz = "alive"
  /\ opens[1].kill = "closed"
  /\ opens[2].kill = "running"
  /\ lastOp.name = "killClose"

(***************************************************************************)
(* Sending before the client exists.                                       *)
(***************************************************************************)
\* C20: every client.sendNotification call of a handler is made on a client
\* that has been constructed and started.
C20_SendOnlyOnStartedClient ==
  \A i \in 1..Len(lastOp.sendOn) : lastOp.sendOn[i] = "started"

====
